---------------------------- MODULE Spec2Model ----------------------------
(***************************************************************************)
(* Model of repeat_kmer.h (HISAT 2): RB_Minimizer, the minimizer           *)
(* extraction over 2-bit packed k-mers, and RB_KmerTable, the repeat k-mer *)
(* index (build, isRepeat, findRepeats, write, read).                      *)
(*                                                                         *)
(* Offsets are 0-based as in the C++ code; At(seq, i) is seq[i].  A pair   *)
(* pair<uint64_t, size_t> is the record [first, second].  k-mer codes are  *)
(* uint64_t; the code asserts k <= 32, so no shift in get_kmer or          *)
(* get_next_kmer ever leaves 64 bits, and the codes are modelled as        *)
(* naturals (k is bounded by MaxK below).                                  *)
(***************************************************************************)
EXTENDS Integers, Sequences, FiniteSets

VARIABLES
    w_,           \* RB_KmerTable::w_
    k_,           \* RB_KmerTable::k_
    kmer_table_,  \* RB_KmerTable::kmer_table_, EList of (code, sourceId)
    kmers_,       \* RB_KmerTable::kmers_, std::set of codes
    minimizers,   \* the caller's scratch EList handed to get_minimizer
    repeats,      \* the caller's output EList handed to findRepeats
    f_stream,     \* the words of the file write() produced and read() consumes
    written,      \* history: the index state the file was written from
    hist,         \* history: how the index got its state
    call          \* the last call: [op, arg, ret]

vars == <<w_, k_, kmer_table_, kmers_, minimizers, repeats, f_stream, written,
         hist, call>>

index == <<w_, k_, kmer_table_, kmers_>>

-----------------------------------------------------------------------------
(* Bounds of the model.                                                    *)

\* longest sequence handed to the free-standing minimizer functions
MaxLen == 4
\* largest window handed to the free-standing minimizer functions
MaxW == 3
\* largest k-mer length
MaxK == 2
\* the sequences handed to the index are over the symbols 0..MaxBase
MaxBase == 1
\* longest sequence handed to the index
MaxSeqLen == 3
\* largest number of sequences handed to build
MaxSeqs == 2
\* largest window of an index
MaxIndexW == 2
\* most uninitialised words a read past the end of the file sees before
\* they repeat, and the largest such word
MaxGarbageLen == 2
MaxGarbage == 2
\* most read() calls on an index since it was constructed or built
MaxReads == 2

-----------------------------------------------------------------------------
(* Helpers.                                                                *)

At(seq, i) == seq[i + 1]

Pair(a, b) == [first |-> a, second |-> b]

RECURSIVE Pow4(_)
Pow4(n) == IF n = 0 THEN 1 ELSE 4 * Pow4(n - 1)

\* sequences over S of length lo..hi
SeqsOf(S, lo, hi) == UNION {[1..n -> S] : n \in lo..hi}

\* asc2dna[] (alphabet.cpp), on the ASCII letters the model uses:
\* 'A' = 65, 'C' = 67, 'G' = 71, 'T' = 84; every other character maps to 0.
asc2dna(c) ==
    CASE c = 65 -> 0
      [] c = 67 -> 1
      [] c = 71 -> 2
      [] c = 84 -> 3
      [] OTHER  -> 0

-----------------------------------------------------------------------------
(* RB_Minimizer                                                            *)

minimizer_leq_strict(kmer, kmer2) == kmer < kmer2

minimizer_leq(kmer, kmer2) == kmer <= kmer2

RECURSIVE get_kmer_loop(_, _, _, _, _)
get_kmer_loop(seq, offset, k, i, kmer) ==
    IF i < k
    THEN LET c0 == At(seq, offset + i)
             c  == IF c0 > 3 THEN asc2dna(c0) ELSE c0
         IN  get_kmer_loop(seq, offset, k, i + 1, kmer * 4 + c)
    ELSE kmer

get_kmer(seq, offset, k) == get_kmer_loop(seq, offset, k, 0, 0)

get_next_kmer_nomask(kmer, base, k) ==
    LET b == IF base > 3 THEN asc2dna(base) ELSE base
    IN  kmer * 4 + b

get_next_kmer(kmer, base, k) ==
    LET masked == kmer % Pow4(k - 1)
        b      == IF base > 3 THEN asc2dna(base) ELSE base
    IN  masked * 4 + b

\* the loop of the single-window get_minimizer, lines 45-52
RECURSIVE window_loop(_, _, _, _, _, _, _)
window_loop(seq, off, window, k, i, minimizer, kmer) ==
    IF i < off + window
    THEN LET next_kmer == get_next_kmer(kmer, At(seq, i + k - 1), k)
             m == IF minimizer_leq(next_kmer, minimizer.first)
                  THEN Pair(next_kmer, i)
                  ELSE minimizer
         IN  window_loop(seq, off, window, k, i + 1, m, next_kmer)
    ELSE minimizer

\* get_minimizer(seq, off, window, k): one window, brute force
get_minimizer_window(seq, off, window, k) ==
    LET kmer == get_kmer(seq, off, k)
    IN  window_loop(seq, off, window, k, off + 1, Pair(kmer, off), kmer)

\* the loop of the streaming get_minimizer, lines 70-80
RECURSIVE stream_loop(_, _, _, _, _, _, _)
stream_loop(seq, window, k, i, minimizer, kmer, out) ==
    IF i + window + k - 1 <= Len(seq)
    THEN LET next_kmer == get_next_kmer(kmer, At(seq, i + window + k - 2), k)
             m == IF minimizer.second < i
                  THEN get_minimizer_window(seq, i, window, k)
                  ELSE IF minimizer_leq(next_kmer, minimizer.first)
                       THEN Pair(next_kmer, i + window - 1)
                       ELSE minimizer
         IN  stream_loop(seq, window, k, i + 1, m, next_kmer, Append(out, m))
    ELSE out

\* the same loop without the recomputation when the retained minimizer has
\* left the window
RECURSIVE stream_loop_stale(_, _, _, _, _, _, _)
stream_loop_stale(seq, window, k, i, minimizer, kmer, out) ==
    IF i + window + k - 1 <= Len(seq)
    THEN LET next_kmer == get_next_kmer(kmer, At(seq, i + window + k - 2), k)
             m == IF minimizer_leq(next_kmer, minimizer.first)
                  THEN Pair(next_kmer, i + window - 1)
                  ELSE minimizer
         IN  stream_loop_stale(seq, window, k, i + 1, m, next_kmer, Append(out, m))
    ELSE out

get_minimizer_stale(seq, window, k, buf) ==
    LET first == get_minimizer_window(seq, 0, window, k)
    IN  stream_loop_stale(seq, window, k, 1, first,
                          get_kmer(seq, window - 1, k), <<first>>)

get_minimizer_noclear(seq, window, k, buf) ==
    LET first == get_minimizer_window(seq, 0, window, k)
    IN  stream_loop(seq, window, k, 1, first,
                    get_kmer(seq, window - 1, k), Append(buf, first))

\* get_minimizer(seq, window, k, minimizers): every window, streaming.
\* buf is the caller's list as it is on entry; the result is the list on return.
get_minimizer(seq, window, k, buf) ==
    LET cleared == SubSeq(buf, 1, 0)
        first   == get_minimizer_window(seq, 0, window, k)
    IN  stream_loop(seq, window, k, 1, first,
                    get_kmer(seq, window - 1, k), Append(cleared, first))

-----------------------------------------------------------------------------
(* EList and std::set primitives the index uses.                           *)

\* operator< of pair<uint64_t, size_t>
PairLess(a, b) == a.first < b.first \/ (a.first = b.first /\ a.second < b.second)

RECURSIVE insert_pair(_, _)
insert_pair(sorted, x) ==
    IF sorted = <<>> THEN <<x>>
    ELSE IF PairLess(x, Head(sorted)) THEN <<x>> \o sorted
         ELSE <<Head(sorted)>> \o insert_pair(Tail(sorted), x)

\* EList<pair>::sort(): ascending by operator<
RECURSIVE sort_pairs(_)
sort_pairs(list) ==
    IF list = <<>> THEN <<>>
    ELSE insert_pair(sort_pairs(SubSeq(list, 1, Len(list) - 1)), list[Len(list)])

RECURSIVE insert_id(_, _)
insert_id(sorted, x) ==
    IF sorted = <<>> THEN <<x>>
    ELSE IF x < Head(sorted) THEN <<x>> \o sorted
         ELSE <<Head(sorted)>> \o insert_id(Tail(sorted), x)

\* EList<TIndexOffU>::sort(): ascending
RECURSIVE sort_ids(_)
sort_ids(list) ==
    IF list = <<>> THEN <<>>
    ELSE insert_id(sort_ids(SubSeq(list, 1, Len(list) - 1)), list[Len(list)])

\* EList::bsearchLoBound(el): index of the first element not less than el,
\* size() when there is none (list sorted ascending)
RECURSIVE bsearchLoBound_from(_, _, _)
bsearchLoBound_from(list, el, j) ==
    IF j < Len(list) /\ PairLess(At(list, j), el)
    THEN bsearchLoBound_from(list, el, j + 1)
    ELSE j

bsearchLoBound(list, el) == bsearchLoBound_from(list, el, 0)

\* ascending iteration of a std::set<uint64_t>
RECURSIVE set_in_order(_)
set_in_order(S) ==
    IF S = {} THEN <<>>
    ELSE LET lo == CHOOSE x \in S : \A y \in S : x <= y
         IN  <<lo>> \o set_in_order(S \ {lo})

\* std::numeric_limits<TIndexOffU>::max(), the sentinel of findRepeats; the
\* model uses the largest integer of the model checker, above every sourceId
TIndexOffU_max == 2147483647

-----------------------------------------------------------------------------
(* RB_KmerTable                                                            *)

isIn(kmer) == kmer \in kmers_

\* the scan of one sequence's minimizers, lines 257-266
RECURSIVE build_scan(_, _, _, _)
build_scan(mins, s, i, acc) ==
    IF i < Len(mins)
    THEN LET code == At(mins, i).first
             tab  == acc.table
         IN  IF /\ tab # <<>>
                /\ tab[Len(tab)].first = code
                /\ tab[Len(tab)].second = s
             THEN build_scan(mins, s, i + 1, acc)
             ELSE build_scan(mins, s, i + 1,
                             [table |-> Append(tab, Pair(code, s)),
                              kmers |-> acc.kmers \cup {code}])
    ELSE acc

\* the loop over the sequences, lines 250-267; buf is build's local list
RECURSIVE build_seqs(_, _, _, _, _, _)
build_seqs(seqs, w, k, s, buf, acc) ==
    IF s < Len(seqs)
    THEN LET mins == get_minimizer(At(seqs, s), w, k, buf)
         IN  build_seqs(seqs, w, k, s + 1, mins, build_scan(mins, s, 0, acc))
    ELSE acc

\* the copy into tmp_table that skips an entry equal to the last one kept,
\* lines 270-279
RECURSIVE build_unique(_, _, _)
build_unique(table, i, tmp_table) ==
    IF i < Len(table)
    THEN IF tmp_table # <<>> /\ tmp_table[Len(tmp_table)] = At(table, i)
         THEN build_unique(table, i + 1, tmp_table)
         ELSE build_unique(table, i + 1, Append(tmp_table, At(table, i)))
    ELSE tmp_table

build_nosort(seqs, w, k, old_table, old_kmers) ==
    LET acc == build_seqs(seqs, w, k, 0, <<>>, [table |-> <<>>, kmers |-> {}])
    IN  [w_ |-> w, k_ |-> k,
         kmer_table_ |-> build_unique(acc.table, 0, <<>>),
         kmers_ |-> acc.kmers]

build_keepset(seqs, w, k, old_table, old_kmers) ==
    LET acc == build_seqs(seqs, w, k, 0, <<>>,
                          [table |-> <<>>, kmers |-> old_kmers])
    IN  [w_ |-> w, k_ |-> k,
         kmer_table_ |-> build_unique(sort_pairs(acc.table), 0, <<>>),
         kmers_ |-> acc.kmers]

\* build(seqs, w, k) on an index holding old_table and old_kmers
build(seqs, w, k, old_table, old_kmers) ==
    LET cleared_table == SubSeq(old_table, 1, 0)
        cleared_kmers == old_kmers \ old_kmers
        acc == build_seqs(seqs, w, k, 0, <<>>,
                          [table |-> cleared_table, kmers |-> cleared_kmers])
    IN  [w_ |-> w, k_ |-> k,
         kmer_table_ |-> build_unique(sort_pairs(acc.table), 0, <<>>),
         kmers_ |-> acc.kmers]

\* the counting loop of isRepeat, lines 166-177
RECURSIVE isRepeat_loop(_, _, _, _, _)
isRepeat_loop(mins, j, est_count, prev_minimizer, prev_in) ==
    IF j < Len(mins)
    THEN LET code == At(mins, j).first
             curr_in == IF code = prev_minimizer THEN prev_in
                        ELSE IF isIn(code) THEN TRUE
                        ELSE FALSE
             count == IF code = prev_minimizer
                      THEN (IF prev_in THEN est_count + 1 ELSE est_count)
                      ELSE IF isIn(code) THEN est_count + 1
                      ELSE est_count
         IN  isRepeat_loop(mins, j + 1, count, code, curr_in)
    ELSE est_count

\* isRepeat(query, minimizers): the verdict, the count behind it and the
\* scratch list as it is on return
isRepeat(query, buf) ==
    LET mins == get_minimizer(query, w_, k_, buf)
        est_count == isRepeat_loop(mins, 0, 0, 0, FALSE)
    IN  [ret |-> est_count * 2 >= Len(mins),
         est_count |-> est_count,
         minimizers |-> mins]

\* the inner loop of findRepeats, lines 193-196
RECURSIVE collect_ids(_, _, _)
collect_ids(code, j, out) ==
    IF j < Len(kmer_table_) /\ code = At(kmer_table_, j).first
    THEN collect_ids(code, j + 1, Append(out, At(kmer_table_, j).second))
    ELSE out

\* the loop over the minimizers, lines 189-197
RECURSIVE findRepeats_scan(_, _, _)
findRepeats_scan(mins, i, out) ==
    IF i < Len(mins)
    THEN IF i > 0 /\ At(mins, i).first = At(mins, i - 1).first
         THEN findRepeats_scan(mins, i + 1, out)
         ELSE LET code == At(mins, i).first
                  j == bsearchLoBound(kmer_table_, Pair(code, 0))
              IN  findRepeats_scan(mins, i + 1, collect_ids(code, j, out))
    ELSE out

\* the marking of the repeated ids of a sorted list, lines 203-212: the list
\* with every id equal to its predecessor overwritten by the sentinel, and
\* the number of ids overwritten
RECURSIVE mark_run(_, _, _, _)
mark_run(list, i, j, remove_count) ==
    IF j < Len(list) /\ At(list, i) = At(list, j)
    THEN mark_run([list EXCEPT ![j + 1] = TIndexOffU_max], i, j + 1, remove_count + 1)
    ELSE [list |-> list, j |-> j, remove_count |-> remove_count]

RECURSIVE mark_dups(_, _, _)
mark_dups(list, i, remove_count) ==
    IF i + 1 < Len(list)
    THEN LET r == mark_run(list, i, i + 1, remove_count)
         IN  mark_dups(r.list, r.j, r.remove_count)
    ELSE [list |-> list, remove_count |-> remove_count]

findRepeats_nodedup(query, buf, out) ==
    LET mins == get_minimizer(query, w_, k_, buf)
        collected == findRepeats_scan(mins, 0, <<>>)
    IN  [minimizers |-> mins, repeats |-> sort_ids(collected)]

findRepeats_noclear(query, buf, out) ==
    LET mins == get_minimizer(query, w_, k_, buf)
        collected == findRepeats_scan(mins, 0, out)
    IN  IF collected = <<>>
        THEN [minimizers |-> mins, repeats |-> collected]
        ELSE LET marked == mark_dups(sort_ids(collected), 0, 0)
                 sorted == sort_ids(marked.list)
             IN  [minimizers |-> mins,
                  repeats |-> SubSeq(sorted, 1, Len(sorted) - marked.remove_count)]

\* findRepeats(query, minimizers, repeats): both lists as they are on return
findRepeats(query, buf, out) ==
    LET cleared == SubSeq(out, 1, 0)
        mins == get_minimizer(query, w_, k_, buf)
        collected == findRepeats_scan(mins, 0, cleared)
    IN  IF collected = <<>>
        THEN [minimizers |-> mins, repeats |-> collected]
        ELSE LET marked == mark_dups(sort_ids(collected), 0, 0)
                 sorted == sort_ids(marked.list)
             IN  [minimizers |-> mins,
                  repeats |-> SubSeq(sorted, 1, Len(sorted) - marked.remove_count)]

-----------------------------------------------------------------------------
(* Persistence.  A file is a sequence of words; writeIndex<size_t> and     *)
(* readIndex<size_t> (word_io.h) lay a word out in the byte order asked    *)
(* for.  The model keeps two bytes of each word, enough for every value it *)
(* writes.                                                                 *)

writeIndex(x, bigEndian) ==
    IF bigEndian THEN <<x \div 256, x % 256>> ELSE <<x % 256, x \div 256>>

readIndex(word, bigEndian) ==
    IF bigEndian THEN word[1] * 256 + word[2] ELSE word[2] * 256 + word[1]

RECURSIVE write_codes(_, _)
write_codes(codes, bigEndian) ==
    IF codes = <<>> THEN <<>>
    ELSE <<writeIndex(Head(codes), bigEndian)>> \o write_codes(Tail(codes), bigEndian)

\* write(f_out, bigEndian): the words appended to the (empty) file
write(bigEndian) ==
    <<writeIndex(Cardinality(kmers_), bigEndian),
      writeIndex(w_, bigEndian),
      writeIndex(k_, bigEndian)>> \o write_codes(set_in_order(kmers_), bigEndian)

\* The n-th readIndex of a file (n from 0).  Past the end of the file
\* f_in.read() fails and readIndex returns its uninitialised local: the value
\* is garbage[n - Len(file)], and the last value of garbage for every read
\* after those.
read_word(file, bigEndian, garbage, n) ==
    IF n < Len(file) THEN readIndex(At(file, n), bigEndian)
    ELSE IF n - Len(file) < Len(garbage) THEN At(garbage, n - Len(file))
    ELSE garbage[Len(garbage)]

\* the loop of read, lines 232-235.  Once the reads have reached the
\* constant tail of the garbage and its value is in the set, the set never
\* grows again and the loop never ends.
RECURSIVE read_loop(_, _, _, _, _, _)
read_loop(file, bigEndian, garbage, kmer_size, n, kmers) ==
    IF Cardinality(kmers) < kmer_size
    THEN LET kmer == read_word(file, bigEndian, garbage, n)
         IN  IF n >= Len(file) + Len(garbage) - 1 /\ kmer \in kmers
             THEN [kmers |-> kmers, n |-> n + 1, returns |-> FALSE]
             ELSE read_loop(file, bigEndian, garbage, kmer_size, n + 1,
                            kmers \cup {kmer})
    ELSE [kmers |-> kmers, n |-> n, returns |-> TRUE]

\* read(f_in, bigEndian) on an index whose set holds old_kmers: the fields
\* it leaves, whether it returns, and the number of words it read
read(file, bigEndian, garbage, old_kmers) ==
    LET kmer_size == read_word(file, bigEndian, garbage, 0)
        w == read_word(file, bigEndian, garbage, 1)
        k == read_word(file, bigEndian, garbage, 2)
        r == read_loop(file, bigEndian, garbage, kmer_size, 3, old_kmers)
    IN  [w_ |-> w, k_ |-> k, kmers_ |-> r.kmers,
         returns |-> r.returns, words_read |-> r.n]

-----------------------------------------------------------------------------
(* Inputs.                                                                 *)

Ascii(seq) == [i \in DOMAIN seq |-> CASE seq[i] = 0 -> 65 [] seq[i] = 1 -> 67
                                      [] seq[i] = 2 -> 71 [] OTHER -> 84]

\* sequences for the minimizer functions: 2-bit symbols, or ASCII letters
MinSeqs == LET raw == SeqsOf(0..3, 1, MaxLen) IN raw \cup {Ascii(s) : s \in raw}

\* sequences for the index
IndexSeqs == SeqsOf(0..MaxBase, 1, MaxSeqLen)

\* the lists of sequences handed to build
BuildLists == SeqsOf(IndexSeqs, 0, MaxSeqs)

\* the lists handed to build where the file is what is looked at
\* (one sequence at most, one symbol shorter)
IOSeqs == SeqsOf(0..MaxBase, 1, MaxSeqLen - 1)

BuildListsIO == SeqsOf(IOSeqs, 0, 1)

GarbageSeqs == SeqsOf(0..MaxGarbage, 1, MaxGarbageLen)

NoFile == [state |-> "none", w_ |-> 0, k_ |-> 0, kmers_ |-> {}, bigEndian |-> FALSE]

-----------------------------------------------------------------------------
(* The state after construction: RB_KmerTable() sets w_ = k_ = 0, the      *)
(* lists and the set are empty.                                            *)

Fresh ==
    /\ w_ = 0
    /\ k_ = 0
    /\ kmer_table_ = <<>>
    /\ kmers_ = {}
    /\ minimizers = <<>>
    /\ repeats = <<>>
    /\ f_stream = <<>>
    /\ written = NoFile
    /\ hist = [origin |-> "new", seqs |-> <<>>, reads |-> 0]

Init ==
    /\ Fresh
    /\ call = [op |-> "new", arg |-> <<>>, ret |-> <<>>]

\* a read that never returns leaves the caller inside read()
Running == ~(call.op = "read" /\ call.ret = "never returns")

-----------------------------------------------------------------------------
(* The minimizer functions, applied to an input drawn by InitMin.          *)

MinInputs ==
    {in \in [seq : MinSeqs, window : 1..MaxW, k : 1..MaxK] :
        in.window + in.k - 1 <= Len(in.seq)}

InitMin ==
    /\ Fresh
    /\ call \in [op : {"input"}, arg : MinInputs, off : {0}, ret : {<<>>}]

\* get_minimizer(seq, off, window, k)
GetMinimizerWindow ==
    \E off \in 0..MaxLen :
        /\ call.arg.k <= 32
        /\ off + call.arg.window + call.arg.k - 1 <= Len(call.arg.seq)
        /\ call' = [op |-> "get_minimizer_window", arg |-> call.arg, off |-> off,
                    ret |-> get_minimizer_window(call.arg.seq, off,
                                                 call.arg.window, call.arg.k)]
        /\ UNCHANGED <<index, minimizers, repeats, f_stream, written, hist>>

\* get_minimizer(seq, window, k, minimizers)
GetMinimizer ==
    /\ call.arg.k <= 32
    /\ call.arg.window + call.arg.k - 1 <= Len(call.arg.seq)
    /\ minimizers' = get_minimizer(call.arg.seq, call.arg.window, call.arg.k,
                                   minimizers)
    /\ call' = [op |-> "get_minimizer", arg |-> call.arg, off |-> 0, ret |-> <<>>]
    /\ UNCHANGED <<index, repeats, f_stream, written, hist>>

NextMin == GetMinimizerWindow \/ GetMinimizer

SpecMin == InitMin /\ [][NextMin]_vars

-----------------------------------------------------------------------------
(* The operations of one RB_KmerTable and of its caller's two lists.       *)

\* what the asserts of get_minimizer ask of a query
QueryOk(query) ==
    /\ w_ >= 1
    /\ k_ >= 1
    /\ k_ <= 32
    /\ w_ + k_ - 1 <= Len(query)

\* build(seqs, w, k)
Build(lists) ==
    \E seqs \in lists, w \in 1..MaxIndexW, k \in 1..MaxK :
        /\ Running
        /\ k <= 32
        /\ \A s \in DOMAIN seqs : w + k - 1 <= Len(seqs[s])
        /\ LET b == build(seqs, w, k, kmer_table_, kmers_)
           IN  /\ w_' = b.w_
               /\ k_' = b.k_
               /\ kmer_table_' = b.kmer_table_
               /\ kmers_' = b.kmers_
        /\ hist' = [origin |-> "build", seqs |-> seqs, reads |-> 0]
        /\ call' = [op |-> "build", arg |-> <<>>, ret |-> <<>>]
        /\ UNCHANGED <<minimizers, repeats, f_stream, written>>

\* isRepeat(query, minimizers)
IsRepeat ==
    \E query \in IndexSeqs :
        /\ Running
        /\ QueryOk(query)
        /\ LET r == isRepeat(query, minimizers)
           IN  /\ minimizers' = r.minimizers
               /\ call' = [op |-> "isRepeat",
                           arg |-> [query |-> query, reused |-> minimizers # <<>>],
                           ret |-> [verdict |-> r.ret, est_count |-> r.est_count]]
        /\ UNCHANGED <<index, repeats, f_stream, written, hist>>

\* findRepeats(query, minimizers, repeats)
FindRepeats(queries) ==
    \E query \in queries :
        /\ Running
        /\ QueryOk(query)
        /\ LET r == findRepeats(query, minimizers, repeats)
           IN  /\ minimizers' = r.minimizers
               /\ repeats' = r.repeats
        /\ call' = [op |-> "findRepeats",
                    arg |-> [query |-> query,
                             reused |-> minimizers # <<>> /\ repeats # <<>>],
                    ret |-> <<>>]
        /\ UNCHANGED <<index, f_stream, written, hist>>

\* write(f_out, bigEndian) to a new file, by an index populated by build()
Write ==
    \E bigEndian \in BOOLEAN :
        /\ Running
        /\ hist.origin = "build"
        /\ f_stream' = write(bigEndian)
        /\ written' = [state |-> "written", w_ |-> w_, k_ |-> k_,
                       kmers_ |-> kmers_, bigEndian |-> bigEndian]
        /\ call' = [op |-> "write", arg |-> bigEndian, ret |-> TRUE]
        /\ UNCHANGED <<index, minimizers, repeats, hist>>

\* the file loses its last word (a truncated file)
Truncate ==
    /\ Running
    /\ written.state = "written"
    /\ f_stream # <<>>
    /\ f_stream' = SubSeq(f_stream, 1, Len(f_stream) - 1)
    /\ written' = [written EXCEPT !.state = "truncated"]
    /\ call' = [op |-> "truncate", arg |-> <<>>, ret |-> <<>>]
    /\ UNCHANGED <<index, minimizers, repeats, hist>>

\* the last code word of the file is overwritten by a copy of the one before
\* it (a malformed file: a code word occurs twice)
RepeatWord ==
    /\ Running
    /\ written.state = "written"
    /\ Len(f_stream) >= 5
    /\ f_stream' = [f_stream EXCEPT ![Len(f_stream)] = f_stream[Len(f_stream) - 1]]
    /\ written' = [written EXCEPT !.state = "repeated"]
    /\ call' = [op |-> "repeat word", arg |-> <<>>, ret |-> <<>>]
    /\ UNCHANGED <<index, minimizers, repeats, hist>>

\* read(f_in, bigEndian)
Read ==
    \E bigEndian \in BOOLEAN, garbage \in GarbageSeqs :
        /\ Running
        /\ written.state # "none"
        /\ hist.reads < MaxReads
        /\ LET r == read(f_stream, bigEndian, garbage, kmers_)
           IN  /\ w_' = r.w_
               /\ k_' = r.k_
               /\ kmers_' = r.kmers_
               /\ call' = [op |-> "read",
                           arg |-> [bigEndian |-> bigEndian,
                                    past_end |-> r.words_read > Len(f_stream)],
                           ret |-> IF r.returns THEN "true" ELSE "never returns"]
        /\ hist' = [origin |-> "read", seqs |-> hist.seqs, reads |-> hist.reads + 1]
        /\ UNCHANGED <<kmer_table_, minimizers, repeats, f_stream, written>>

\* build() called again and again
BuildAny == Build(BuildLists)

SpecBuild == Init /\ [][BuildAny]_vars

\* the index is populated once by build() and then queried
BuildOnce == hist.origin = "new" /\ Build(BuildLists)

Next == BuildOnce \/ IsRepeat \/ FindRepeats(IndexSeqs)

Spec == Init /\ [][Next]_vars

\* an index is built, written, read back, possibly from a damaged file
BuildIO == Build(BuildListsIO)

NextIO == BuildIO \/ Write \/ Truncate \/ RepeatWord \/ Read

SpecIO == Init /\ [][NextIO]_vars

-----------------------------------------------------------------------------
(* What the claims are stated against: the packed code of a k-mer and the  *)
(* minimum of a window, written out directly.                              *)

Base(c) == IF c > 3 THEN asc2dna(c) ELSE c

RECURSIVE PackedSum(_, _, _, _)
PackedSum(seq, i, k, j) ==
    IF j = k THEN 0
    ELSE Base(At(seq, i + j)) * Pow4(k - 1 - j) + PackedSum(seq, i, k, j + 1)

\* the 2-bit packed code of seq[i .. i+k-1]
PackedCode(seq, i, k) == PackedSum(seq, i, k, 0)

\* the least packed code of the k-mers starting in [off, off+window-1]
WindowMin(seq, off, window, k) ==
    LET codes == {PackedCode(seq, i, k) : i \in off..(off + window - 1)}
    IN  CHOOSE m \in codes : \A c \in codes : m <= c

\* the number of windows of a sequence
Windows(seq, window, k) == Len(seq) - window - k + 2

\* the minimizer codes of a sequence
MinimizerCodes(seq, window, k) ==
    {WindowMin(seq, i, window, k) : i \in 0..(Windows(seq, window, k) - 1)}

Entries(list) == {list[i] : i \in DOMAIN list}

-----------------------------------------------------------------------------
(* C1.  The list the streaming get_minimizer leaves has one entry per      *)
(* window, L - w - k + 2 of them, and entry i has the code and the         *)
(* position the single-window get_minimizer returns for window i.          *)

C1_StreamEqualsWindows ==
    call.op = "get_minimizer" =>
        LET in == call.arg
        IN  /\ Len(minimizers) = Len(in.seq) - in.window - in.k + 2
            /\ \A i \in 0..(Len(in.seq) - in.window - in.k + 1) :
                  /\ At(minimizers, i).first =
                        get_minimizer_window(in.seq, i, in.window, in.k).first
                  /\ At(minimizers, i).second =
                        get_minimizer_window(in.seq, i, in.window, in.k).second

\* a stream of three windows or more in which a retained minimizer left the
\* window and in which a new k-mer displaced the retained one
C1_Witness ==
    /\ call.op = "get_minimizer"
    /\ Len(minimizers) >= 3
    /\ \E i \in 1..(Len(minimizers) - 1) : At(minimizers, i - 1).second < i
    /\ \E i \in 1..(Len(minimizers) - 1) :
          /\ At(minimizers, i - 1).second >= i
          /\ At(minimizers, i).second = i + call.arg.window - 1

(* C6.  The single-window get_minimizer returns (m, p): m is the least     *)
(* packed code of the k-mers starting in [off, off+w-1], 0 <= m < 4^k, and *)
(* p is the largest start in the window whose k-mer has code m.            *)

C6_WindowMinLastTie ==
    call.op = "get_minimizer_window" =>
        LET in == call.arg
            off == call.off
            m == call.ret.first
            p == call.ret.second
            win == off..(off + in.window - 1)
        IN  /\ m = WindowMin(in.seq, off, in.window, in.k)
            /\ 0 <= m
            /\ m < Pow4(in.k)
            /\ p \in win
            /\ PackedCode(in.seq, p, in.k) = m
            /\ \A i \in win : PackedCode(in.seq, i, in.k) = m => i <= p

\* a window in which the minimum occurs at two positions, not the first one
C6_Witness ==
    /\ call.op = "get_minimizer_window"
    /\ call.off > 0
    /\ \E i \in call.off..(call.off + call.arg.window - 1) :
          /\ i < call.ret.second
          /\ PackedCode(call.arg.seq, i, call.arg.k) = call.ret.first

-----------------------------------------------------------------------------
\* the (code, sourceId) pairs of a list of sequences
TrainedPairs(seqs, window, k) ==
    UNION {{Pair(c, s - 1) : c \in MinimizerCodes(seqs[s], window, k)} :
              s \in DOMAIN seqs}

StrictlyAscendingPairs(list) ==
    \A i \in 1..(Len(list) - 1) : PairLess(list[i], list[i + 1])

StrictlyAscendingIds(list) ==
    \A i \in 1..(Len(list) - 1) : list[i] < list[i + 1]

(* C4.  After build(seqs, w, k), whatever the index held before, the table *)
(* is strictly ascending by (code, sourceId), so no pair occurs twice, and *)
(* its entries are exactly the pairs (c, s) with c a minimizer code of     *)
(* seqs[s].                                                                *)

C4_TableSortedExact ==
    call.op = "build" =>
        /\ StrictlyAscendingPairs(kmer_table_)
        /\ \A i, j \in DOMAIN kmer_table_ : i # j => kmer_table_[i] # kmer_table_[j]
        /\ Entries(kmer_table_) = TrainedPairs(hist.seqs, w_, k_)

\* a build of two sequences that share a code, the first of which meets one
\* of its codes again after another one (the scan appends the pair twice)
C4_Witness ==
    /\ call.op = "build"
    /\ Len(hist.seqs) = 2
    /\ \E i, j \in DOMAIN kmer_table_ :
          /\ kmer_table_[i].first = kmer_table_[j].first
          /\ kmer_table_[i].second # kmer_table_[j].second
    /\ LET mins == get_minimizer(hist.seqs[1], w_, k_, <<>>)
       IN  \E a, b, c \in DOMAIN mins :
              /\ a < b
              /\ b < c
              /\ mins[a].first = mins[c].first
              /\ mins[a].first # mins[b].first

(* C10.  After any sequence of build() calls the distinct-code set is      *)
(* exactly the set of the codes of the table of the last build: isIn(c)    *)
(* if and only if some entry carries c.                                    *)

C10_SetIsTableCodes ==
    call.op = "build" =>
        /\ kmers_ = {kmer_table_[i].first : i \in DOMAIN kmer_table_}
        /\ \A c \in 0..(Pow4(k_) - 1) :
              isIn(c) <=> \E i \in DOMAIN kmer_table_ : kmer_table_[i].first = c

\* a build whose table holds fewer codes than entries and at least two codes
C10_Witness ==
    /\ call.op = "build"
    /\ Cardinality(kmers_) >= 2
    /\ Cardinality(kmers_) < Len(kmer_table_)

-----------------------------------------------------------------------------
\* the number of entries of a minimizer list whose code is in the set
MemberCount(mins) == Cardinality({j \in DOMAIN mins : mins[j].first \in kmers_})

(* C2.  The count isRepeat accumulates is the number of entries of the     *)
(* query's minimizer stream whose code is in the distinct-code set, also   *)
(* for the first entry and for code 0, so isRepeat returns true if and     *)
(* only if twice that number is at least the number of minimizers.         *)

C2_CountIsMembers ==
    call.op = "isRepeat" =>
        /\ call.ret.est_count = MemberCount(minimizers)
        /\ call.ret.verdict = (2 * MemberCount(minimizers) >= Len(minimizers))

(* C3.  After findRepeats on an index built by build(seqs, w, k), the      *)
(* output list is strictly ascending and holds exactly the sourceIds s     *)
(* such that a minimizer code of the query is a minimizer code of seqs[s]; *)
(* it is empty when no code is shared.                                     *)

C3_FindRepeatsExact ==
    call.op = "findRepeats" =>
        LET qcodes == MinimizerCodes(call.arg.query, w_, k_)
            sharing == {s \in DOMAIN hist.seqs :
                          qcodes \cap MinimizerCodes(hist.seqs[s], w_, k_) # {}}
        IN  /\ StrictlyAscendingIds(repeats)
            /\ Entries(repeats) = {s - 1 : s \in sharing}
            /\ (sharing = {} => repeats = <<>>)

\* a query of two codes or more that finds both sources, one of them through
\* two of its codes
C3_Witness ==
    /\ call.op = "findRepeats"
    /\ repeats = <<0, 1>>
    /\ Cardinality(MinimizerCodes(call.arg.query, w_, k_)) >= 2
    /\ \E s \in DOMAIN hist.seqs :
          Cardinality(MinimizerCodes(call.arg.query, w_, k_)
                      \cap MinimizerCodes(hist.seqs[s], w_, k_)) >= 2

(* C9.  isRepeat and findRepeats leave w, k, the table and the set as they *)
(* are, and what they return is what the same query returns on that index  *)
(* with an empty scratch list and an empty output list, whatever the two   *)
(* lists held on entry.                                                    *)

C9_QueriesFrameAndScratch ==
    [][/\ call'.op = "isRepeat" =>
            /\ index' = index
            /\ call'.ret.verdict = isRepeat(call'.arg.query, <<>>).ret
            /\ minimizers' = isRepeat(call'.arg.query, <<>>).minimizers
       /\ call'.op = "findRepeats" =>
            /\ index' = index
            /\ repeats' = findRepeats(call'.arg.query, <<>>, <<>>).repeats
            /\ minimizers' = findRepeats(call'.arg.query, <<>>, <<>>).minimizers
      ]_vars

\* a findRepeats that was handed two used lists and found a source
C9_Witness ==
    /\ call.op = "findRepeats"
    /\ call.arg.reused
    /\ repeats # <<>>
    /\ kmer_table_ # <<>>

-----------------------------------------------------------------------------
\* the last call was a read, with the byte order of the write, of the file
\* as write() left it
ReadBack ==
    /\ call.op = "read"
    /\ written.state = "written"
    /\ call.arg.bigEndian = written.bigEndian

\* the last call was a read, with the byte order of the write, of a file that
\* lost its last word or holds a code word twice
ReadDamaged ==
    /\ call.op = "read"
    /\ written.state \in {"truncated", "repeated"}
    /\ call.arg.bigEndian = written.bigEndian

(* C5.  read is the inverse of write: after A.write and B.read with the    *)
(* same byte order, B in any reachable state, B's w, k and distinct-code   *)
(* set are those A had when it wrote.                                      *)

C5_ReadInvertsWrite ==
    ReadBack =>
        /\ call.ret = "true"
        /\ w_ = written.w_
        /\ k_ = written.k_
        /\ kmers_ = written.kmers_

(* C7.  After read() restores an index and until the next build(), the     *)
(* table holds no entry and findRepeats returns an empty list for every    *)
(* query, whatever happened to the index before the read.                  *)

C7_NoTableAfterRead ==
    (hist.origin = "read" /\ Running) =>
        /\ kmer_table_ = <<>>
        /\ \A query \in IndexSeqs :
              QueryOk(query) => findRepeats(query, <<>>, <<>>).repeats = <<>>

(* C8.  Given a truncated or malformed file, read() ends with a distinct   *)
(* corrupt-index failure, does not read past the end of the file and does  *)
(* not report success.                                                     *)

C8_CorruptIndexFailure ==
    ReadDamaged =>
        /\ call.ret = "corrupt index"
        /\ ~call.arg.past_end

=============================================================================
